---- MODULE Spec2Model ----
(***************************************************************************)
(* Model of the eterpay Bitcoin invoice service (bitcoin/views.py,         *)
(* eterpay/utils.py).  The store is the BitcoinInvoice table; every HTTP   *)
(* handler of ProjectViewSet is an action.  A handler that calls the       *)
(* wallet over the network (get_unspents, send) is split at that call:     *)
(* the first step runs the handler up to the call and leaves the request   *)
(* in a worker slot, the second step is the call returning and the handler *)
(* answering.  Handlers take no lock, so several workers run at once.      *)
(***************************************************************************)
EXTENDS Integers, Sequences, FiniteSets, TLC

\* ---------------------------------------------------------------- bounds
MaxInvoices == 2      \* invoices ever created (uuid4 values handed out)
MaxReq      == 2      \* worker slots: requests whose wallet call is in progress
MaxUtxo     == 2      \* length of a get_unspents() snapshot
MaxVendors  == 2      \* entries of a release body

\* ---------------------------------------------------------------- inputs
Users       == {"alice", "bob"}
UUIDs       == 1..MaxInvoices
Vendors     == {"vA", "vB"}
Slots       == 1..MaxReq

\* invoice.amount is a decimal BTC amount; it is held as a count of
\* 1/AmountScale BTC (two fractional digits).
AmountScale == 100
Amounts     == {1, 2}                     \* 0.01 and 0.02 BTC

\* bit's exchange rate for 'btc': satoshi per BTC.
SatoshiPerBtc == 100000000
UtxoAmounts == {500000, 1000000}          \* 0.005 and 0.01 BTC in satoshi

\* settings.BTC_CONFIRMATIONS
BTC_CONFIRMATIONS == 3
ConfCounts  == {BTC_CONFIRMATIONS - 1, BTC_CONFIRMATIONS}

\* Decimal(str(x)) values of a release body are held as counts of 1/DecScale.
DecScale    == 10000
VendorAmounts == {1 * DecScale}           \* 1.00
FeeRates    == {-1 * DecScale, 2 * DecScale, 150 * DecScale}

Addresses   == {"dest"}

\* ---------------------------------------------------------------- state
VARIABLES
    store,      \* the BitcoinInvoice table: a set of invoice records
    nextId,     \* the next uuid4() value
    slots,      \* slot -> the request whose wallet call is in progress, or Idle
    last        \* the request answered last, with its inputs and its response

vars == <<store, nextId, slots, last>>

\* ---------------------------------------------------------------- messages
NotFound        == "UUID does not belong to any of the invoices."
SerializerError == "serializer.errors"
NotPayed        == "Amount is not payed"
PayedLess       == "Payed amount is less"
NotConfirmed    == "Payment is not confirmed yet"
FatalError      == "Fatal error occurred"
InvalidCurrency == "Invalid currency provided."

\* The names bound in the module namespace of bitcoin/views.py by its imports.
ViewsGlobals ==
    {"bit", "json", "uuid4", "Decimal", "viewsets", "api_view", "action",
     "Response", "IsAuthenticated", "SessionAuthentication",
     "BasicAuthentication", "TokenAuthentication",
     "currency_to_satoshi_cached", "render", "settings", "BitcoinInvoice",
     "InvoiceSerializer", "CreateInvoice", "WithdrawInvoice",
     "get_object_or_none"}

\* ---------------------------------------------------------------- records
\* What get_object_or_none returns when nothing matches.
None == [uuid |-> 0, user |-> "", amount |-> 0, key |-> 0, address |-> 0]

\* bit.PrivateKey(): fresh key material, its WIF and its address.  The n-th
\* generated key is n; the address is derived from the key alone.
to_wif(n)     == n
address_of(k) == k + 100

Unspent   == [amount : UtxoAmounts, confirmations : ConfCounts]
SnapshotsUpTo(k) == UNION {[1..n -> Unspent] : n \in 0..k}
Snapshots == SnapshotsUpTo(MaxUtxo)

AllFields == {"amount", "fee"}
VendorEntries ==
    [vendor : Vendors, fields : {AllFields}, amount : VendorAmounts, fee : FeeRates]
    \cup [vendor : Vendors, fields : {{"amount"}}, amount : VendorAmounts, fee : {0}]

\* A JSON object: entries in insertion order, keys distinct.
VendorMapsUpTo(k) ==
    {m \in UNION {[1..n -> VendorEntries] : n \in 0..k} :
        \A i, j \in DOMAIN m : i # j => m[i].vendor # m[j].vendor}
VendorMaps == VendorMapsUpTo(MaxVendors)

Idle == [op |-> "idle", user |-> "", uuid |-> 0, inv |-> None, dest |-> "",
         vendors |-> <<>>, outputs |-> <<>>, late |-> FALSE]

NoRequest ==
    [op |-> "none", user |-> "", uuid |-> 0, inv |-> None, valid |-> TRUE,
     amount |-> 0, dest |-> "", vendors |-> <<>>, outputs |-> <<>>,
     wallet |-> "none", utxo |-> <<>>, late |-> FALSE,
     status |-> "none", kind |-> "", got |-> 0, need |-> 0, data |-> <<>>]

\* Response({'error': msg}, status=400), Response(data) and an exception that
\* leaves the handler uncaught.
Error(req, msg)     == [req EXCEPT !.status = "error", !.kind = msg]
Success(req, data)  == [req EXCEPT !.status = "success", !.data = data]
Uncaught(req, exc)  == [req EXCEPT !.status = "exception", !.kind = exc]

Request(op, user, uuid) == [NoRequest EXCEPT !.op = op, !.user = user, !.uuid = uuid]

\* The request of a worker slot, as the record last holds.
OfSlot(r) ==
    [NoRequest EXCEPT !.op = r.op, !.user = r.user, !.uuid = r.uuid, !.inv = r.inv,
                      !.dest = r.dest, !.vendors = r.vendors, !.outputs = r.outputs,
                      !.late = r.late]

\* ---------------------------------------------------------------- utils.py
get_object_or_none_AnyUser(user, uuid) ==
    IF \E i \in store : i.uuid = uuid
    THEN CHOOSE i \in store : i.uuid = uuid
    ELSE None

\* klass.objects.get(user=user, uuid=uuid), None on ObjectDoesNotExist.
get_object_or_none(user, uuid) ==
    IF \E i \in store : i.user = user /\ i.uuid = uuid
    THEN CHOOSE i \in store : i.user = user /\ i.uuid = uuid
    ELSE None

\* Decimal(str(price)) * (Decimal(str(percent)) / 100)
get_price_fee(price, percent) == (price * (percent \div 100)) \div DecScale

\* ---------------------------------------------------------------- bit
\* currency_to_satoshi_cached(amount, 'btc'): int(rate * Decimal(amount)).
currency_to_satoshi_cached(amount) == (amount * SatoshiPerBtc) \div AmountScale

RECURSIVE SumAmounts(_)
SumAmounts(utxo) ==
    IF utxo = <<>> THEN 0 ELSE Head(utxo).amount + SumAmounts(Tail(utxo))

\* wallet.get_balance('btc'): the satoshi total as a decimal BTC amount,
\* whole part and fraction.
get_balance(utxo) ==
    <<SumAmounts(utxo) \div SatoshiPerBtc, SumAmounts(utxo) % SatoshiPerBtc>>

\* ---------------------------------------------------------------- views.py
Init ==
    /\ store = {}
    /\ nextId = 1
    /\ slots = [s \in Slots |-> Idle]
    /\ last = NoRequest

\* One response is on the wire at a time; no handler reads it.
Ready == last = NoRequest

\* The worker that waits for a wallet call: the first free slot.
Free(s) ==
    /\ slots[s] = Idle
    /\ \A t \in Slots : t < s => slots[t] # Idle

\* The handler answers at once: the worker is released with the response.
Answer(resp) ==
    /\ last' = resp
    /\ UNCHANGED <<nextId, slots>>

\* The handler has issued its wallet call and waits for it.
Call(s, r) ==
    /\ Free(s)
    /\ slots' = [slots EXCEPT ![s] = r]
    /\ UNCHANGED <<store, nextId, last>>

InFlight(op, user, uuid, inv) ==
    [Idle EXCEPT !.op = op, !.user = user, !.uuid = uuid, !.inv = inv]

invoice_delete_AllOfUser(invoice) == {i \in store : i.user # invoice.user}

\* invoice.delete()
invoice_delete(invoice) == store \ {invoice}

delete_invoice(user, uuid) ==
    /\ Ready
    /\ LET invoice == get_object_or_none(user, uuid)
           req     == [Request("delete", user, uuid) EXCEPT !.inv = invoice]
       IN  IF invoice = None
           THEN /\ Answer(Error(req, NotFound))
                /\ UNCHANGED store
           ELSE /\ store' = invoice_delete(invoice)
                /\ Answer(Success(req, <<>>))

\* InvoiceSerializer(invoice).data
InvoiceData(invoice) == <<invoice.uuid, invoice.amount, invoice.address>>

invoice_details(user, uuid) ==
    /\ Ready
    /\ LET invoice == get_object_or_none(user, uuid)
           req     == [Request("details", user, uuid) EXCEPT !.inv = invoice]
       IN  IF invoice = None
           THEN Answer(Error(req, NotFound))
           ELSE Answer(Success(req, InvoiceData(invoice)))
    /\ UNCHANGED store

create_invoice(user, valid, amount) ==
    /\ Ready
    /\ LET req == [Request("create", user, 0) EXCEPT !.valid = valid, !.amount = amount]
       IN  IF ~valid
           THEN /\ Answer(Error(req, SerializerError))
                /\ UNCHANGED store
           ELSE /\ nextId <= MaxInvoices
                /\ LET invoice == [uuid |-> nextId, user |-> user, amount |-> amount,
                                   key |-> to_wif(nextId),
                                   address |-> address_of(to_wif(nextId))]
                   IN  /\ store' = store \cup {invoice}
                       /\ nextId' = nextId + 1
                       /\ last' = Success([req EXCEPT !.uuid = invoice.uuid,
                                                      !.inv = invoice],
                                          InvoiceData(invoice))
                       /\ UNCHANGED slots

\* invoice_balance up to wallet.get_unspents()
balance_begin(s, user, uuid) ==
    /\ Ready
    /\ LET invoice == get_object_or_none(user, uuid)
       IN  IF invoice = None
           THEN /\ Answer(Error(Request("balance", user, uuid), NotFound))
                /\ UNCHANGED store
           ELSE Call(s, InFlight("balance", user, uuid, invoice))

\* wallet.get_unspents() returns or raises; then get_balance('btc').
balance_return(s, outcome, utxo) ==
    /\ Ready
    /\ slots[s].op = "balance"
    /\ LET req == [OfSlot(slots[s]) EXCEPT !.wallet = outcome]
       IN  last' = IF outcome = "error"
                   THEN Uncaught(req, "WalletError")
                   ELSE Success([req EXCEPT !.utxo = utxo], get_balance(utxo))
    /\ slots' = [slots EXCEPT ![s] = Idle]
    /\ UNCHANGED <<store, nextId>>

\* check_invoice up to wallet.get_unspents()
check_begin(s, user, uuid) ==
    /\ Ready
    /\ LET invoice == get_object_or_none(user, uuid)
       IN  IF invoice = None
           THEN /\ Answer(Error(Request("check", user, uuid), NotFound))
                /\ UNCHANGED store
           ELSE Call(s, InFlight("check", user, uuid, invoice))

\* check_invoice from `if len(utxo) > 0` on.
check_response(req, invoice, utxo) ==
    IF Len(utxo) > 0
    THEN LET last_utxo      == utxo[Len(utxo)]
             invoice_amount == currency_to_satoshi_cached(invoice.amount)
         IN  IF last_utxo.amount < invoice_amount
             THEN [Error(req, PayedLess) EXCEPT !.got = last_utxo.amount,
                                                !.need = invoice_amount]
             ELSE IF last_utxo.confirmations < BTC_CONFIRMATIONS
             THEN [Error(req, NotConfirmed) EXCEPT !.got = last_utxo.confirmations,
                                                   !.need = BTC_CONFIRMATIONS]
             ELSE Success(req, <<>>)
    ELSE Error(req, NotPayed)

check_return(s, outcome, utxo) ==
    /\ Ready
    /\ slots[s].op = "check"
    /\ LET req == [OfSlot(slots[s]) EXCEPT !.wallet = outcome]
       IN  last' = IF outcome = "error"
                   THEN Uncaught(req, "WalletError")
                   ELSE check_response([req EXCEPT !.utxo = utxo], slots[s].inv, utxo)
    /\ slots' = [slots EXCEPT ![s] = Idle]
    /\ UNCHANGED <<store, nextId>>

\* withdraw_invoice up to wallet.send([], leftover=address)
withdraw_begin(s, user, uuid, valid, address) ==
    /\ Ready
    /\ LET req     == [Request("withdraw", user, uuid) EXCEPT !.valid = valid,
                                                              !.dest = address]
           invoice == get_object_or_none(user, uuid)
       IN  IF ~valid
           THEN /\ Answer(Error(req, SerializerError))
                /\ UNCHANGED store
           ELSE IF invoice = None
           THEN /\ Answer(Error(req, NotFound))
                /\ UNCHANGED store
           ELSE Call(s, [InFlight("withdraw", user, uuid, invoice)
                            EXCEPT !.dest = address])

\* wallet.send returns the transaction id or raises inside the try.
send_return(s, outcome) ==
    /\ Ready
    /\ slots[s].op \in {"withdraw", "release"}
    /\ LET req == [OfSlot(slots[s]) EXCEPT !.wallet = outcome]
       IN  last' = IF outcome = "error"
                   THEN Error(req, FatalError)
                   ELSE Success(req, <<"txid">>)
    /\ slots' = [slots EXCEPT ![s] = Idle]
    /\ UNCHANGED <<store, nextId>>

\* The loop of release_invoice over the vendors: the outputs built, or the
\* exception that ends it.
RECURSIVE release_loop(_, _)
release_loop(vendors, outputs) ==
    IF vendors = <<>>
    THEN [exc |-> "", outputs |-> outputs]
    ELSE LET v == Head(vendors)
         IN  IF ~(AllFields \subseteq v.fields)
             THEN [exc |-> "KeyError", outputs |-> outputs]
             ELSE IF "get_price_fee" \notin ViewsGlobals
             THEN [exc |-> "NameError", outputs |-> outputs]
             ELSE release_loop(Tail(vendors),
                      Append(outputs,
                             [vendor |-> v.vendor,
                              amount |-> v.amount - get_price_fee(v.amount, v.fee),
                              currency |-> "btc"]))

\* release_invoice up to wallet.send(outputs)
release_begin(s, user, uuid, valid, vendors) ==
    /\ Ready
    /\ LET req     == [Request("release", user, uuid) EXCEPT !.valid = valid,
                                                             !.vendors = vendors]
           invoice == get_object_or_none(user, uuid)
           built   == release_loop(vendors, <<>>)
       IN  IF invoice = None
           THEN /\ Answer(Error(req, NotFound))
                /\ UNCHANGED store
           ELSE IF ~valid
           THEN /\ Answer(Uncaught([req EXCEPT !.inv = invoice], "JSONDecodeError"))
                /\ UNCHANGED store
           ELSE IF built.exc # ""
           THEN /\ Answer(Uncaught([req EXCEPT !.inv = invoice], built.exc))
                /\ UNCHANGED store
           ELSE Call(s, [InFlight("release", user, uuid, invoice)
                            EXCEPT !.vendors = vendors, !.outputs = built.outputs])

\* No wallet call is given a timeout: when the caller's time limit passes the
\* handler goes on waiting for the call.
timeout_elapses(s) ==
    /\ Ready
    /\ slots[s] # Idle
    /\ ~slots[s].late
    /\ slots' = [slots EXCEPT ![s].late = TRUE]
    /\ UNCHANGED <<store, nextId, last>>

\* return Response(...): the response leaves the server.
deliver ==
    /\ last # NoRequest
    /\ last' = NoRequest
    /\ UNCHANGED <<store, nextId, slots>>

Outcomes == {"ok", "error"}

\* Every handler, with W the workers, S the snapshots the wallet may return
\* and M the bodies a release may carry.
Service(W, S, M) ==
    \/ \E u \in Users, id \in UUIDs : delete_invoice(u, id)
    \/ \E u \in Users, id \in UUIDs : invoice_details(u, id)
    \/ \E u \in Users, v \in BOOLEAN, a \in Amounts : create_invoice(u, v, a)
    \/ \E s \in W, u \in Users, id \in UUIDs : balance_begin(s, u, id)
    \/ \E s \in W, o \in Outcomes, x \in S :
          /\ (o = "error" => x = <<>>)
          /\ balance_return(s, o, x)
    \/ \E s \in W, u \in Users, id \in UUIDs : check_begin(s, u, id)
    \/ \E s \in W, o \in Outcomes, x \in S :
          /\ (o = "error" => x = <<>>)
          /\ check_return(s, o, x)
    \/ \E s \in W, u \in Users, id \in UUIDs, v \in BOOLEAN, a \in Addresses :
          withdraw_begin(s, u, id, v, a)
    \/ \E s \in W, u \in Users, id \in UUIDs, v \in BOOLEAN, m \in M :
          /\ (~v => m = <<>>)
          /\ release_begin(s, u, id, v, m)
    \/ \E s \in W, o \in Outcomes : send_return(s, o)
    \/ \E s \in W : timeout_elapses(s)
    \/ deliver

\* The service with concurrent wallet calls; a release carries an empty body
\* or one that does not parse.
Next == Service(Slots, SnapshotsUpTo(1), VendorMapsUpTo(0))
Spec == Init /\ [][Next]_vars

\* One wallet call at a time; the handlers that call no wallet run beside it.
NextOne == Service({1}, SnapshotsUpTo(1), VendorMapsUpTo(1))
SpecOne == Init /\ [][NextOne]_vars

\* One wallet call at a time, every snapshot: the settlement evaluator.
NextCheck == Service({1}, Snapshots, VendorMapsUpTo(1))
SpecCheck == Init /\ [][NextCheck]_vars

\* One wallet call at a time, every release body: the disbursement planner.
NextRelease == Service({1}, SnapshotsUpTo(1), VendorMaps)
SpecRelease == Init /\ [][NextRelease]_vars

\* ================================================================ claims
\* Some stored invoice has this id and this owner.
Owned(user, uuid) == \E i \in store : i.user = user /\ i.uuid = uuid

LookupOps == {"details", "delete", "balance", "check", "withdraw", "release"}
SendOps   == {"withdraw", "release"}

\* The amount owed, in satoshi.
Owed(req) == (req.inv.amount * SatoshiPerBtc) \div AmountScale

\* A check that got a non-empty snapshot from the wallet.
Checked(req) == req.op = "check" /\ req.wallet = "ok" /\ req.utxo # <<>>

ConfsOf(utxo) == {utxo[i].confirmations : i \in DOMAIN utxo}

\* C1: check reports UNDERPAID exactly when the sum of the amounts of all
\* outputs of the snapshot is strictly less than the amount owed.
C1_UnderpaidIffSumLess ==
    Checked(last) =>
        ((last.kind = PayedLess) <=> (SumAmounts(last.utxo) < Owed(last)))

\* C2: when the received total covers the amount owed, check returns SETTLED
\* or PENDING_CONFIRMATION, decided by the least confirmation count among the
\* contributing outputs against the threshold, and PENDING_CONFIRMATION
\* reports the actual and the required counts.  Whatever subset of the
\* outputs contributes: all counts at the threshold give SETTLED, all counts
\* below it give PENDING_CONFIRMATION with a count of the snapshot.
C2_SettledIffConfirmed ==
    (Checked(last) /\ SumAmounts(last.utxo) >= Owed(last)) =>
        /\ \/ last.status = "success"
           \/ /\ last.kind = NotConfirmed
              /\ last.got \in ConfsOf(last.utxo)
              /\ last.got < BTC_CONFIRMATIONS
              /\ last.need = BTC_CONFIRMATIONS
        /\ (\A c \in ConfsOf(last.utxo) : c >= BTC_CONFIRMATIONS)
               => last.status = "success"
        /\ (\A c \in ConfsOf(last.utxo) : c < BTC_CONFIRMATIONS)
               => last.kind = NotConfirmed

\* A release that found its invoice and parsed its body.
Released(req) == req.op = "release" /\ req.inv # None /\ req.valid

Complete(e) == AllFields \subseteq e.fields
BadRate(e)  == Complete(e) /\ (e.fee < 0 \/ e.fee >= 100 * DecScale)
NetOf(e)    == e.amount - ((e.amount \div 100) * e.fee) \div DecScale

EntriesOf(vendors) == {vendors[i] : i \in DOMAIN vendors}

\* C3: a release with a vendor entry whose fee rate is below 0 or at least 100
\* fails with InvalidRate, and no wallet broadcast is made for it.
C3_InvalidRateRejected ==
    /\ (Released(last) /\ \E e \in EntriesOf(last.vendors) : BadRate(e)) =>
           /\ last.status = "error"
           /\ last.kind = "InvalidRate"
           /\ last.wallet = "none"
    /\ \A s \in Slots : \A e \in EntriesOf(slots[s].vendors) : ~BadRate(e)

\* C4: release never hands the wallet an output with a negative net amount: a
\* vendor entry whose net amount is negative makes release fail with
\* NegativeNetAmount before the broadcast.
C4_NegativeNetRejected ==
    /\ (Released(last) /\ \E e \in EntriesOf(last.vendors) :
                              Complete(e) /\ NetOf(e) < 0) =>
           /\ last.status = "error"
           /\ last.kind = "NegativeNetAmount"
           /\ last.wallet = "none"
    /\ \A s \in Slots : \A i \in DOMAIN slots[s].outputs :
           slots[s].outputs[i].amount >= 0

\* C5: no operation blocks indefinitely: once the time limit of a wallet call
\* has passed the request is not left waiting, it has failed with
\* WalletTimeout.
C5_NoWaitPastTimeout ==
    /\ \A s \in Slots : ~slots[s].late
    /\ last.late => (last.status = "error" /\ last.kind = "WalletTimeout")

\* C6: every failure path answers with a structured {error: message}: no
\* exception leaves a handler uncaught, and a wallet failure is answered with
\* an error.
C6_FailuresAreStructured ==
    /\ last.status # "exception"
    /\ last.wallet = "error" => last.status = "error"

\* C7: operations on one invoice are mutually exclusive: no two of them are
\* inside the wallet's broadcast/sweep call on the same invoice at once.
C7_SendsExclusive ==
    \A s, t \in Slots :
        (s # t /\ slots[s].op \in SendOps /\ slots[t].op \in SendOps)
            => slots[s].inv.uuid # slots[t].inv.uuid

\* The error a request meets when its lookup finds nothing.
C8_Kind(req, strict) ==
    IF ~strict /\ req.op = "withdraw" /\ ~req.valid THEN SerializerError ELSE NotFound

C8_Step(strict) ==
    \* a request answered without a wallet call
    /\ (last = NoRequest /\ last' # NoRequest /\ slots' = slots
            /\ last'.op \in LookupOps /\ ~Owned(last'.user, last'.uuid)) =>
           /\ last'.status = "error"
           /\ last'.kind = C8_Kind(last', strict)
           /\ last'.wallet = "none"
           /\ store' = store
    \* a request that reaches its wallet call
    /\ \A s \in Slots : (slots[s] = Idle /\ slots'[s] # Idle) =>
           /\ Owned(slots'[s].user, slots'[s].uuid)
           /\ slots'[s].inv \in store
           /\ slots'[s].inv.user = slots'[s].user
           /\ slots'[s].inv.uuid = slots'[s].uuid
    \* an invoice is read or removed only by its owner
    /\ \A i \in store \ store' : i.user = last'.user
    /\ (last = NoRequest /\ last'.op = "details" /\ last'.status = "success") =>
           \E i \in store : i.user = last'.user /\ last'.data = InvoiceData(i)

\* C8 as stated: when no stored invoice matches id and owner, every one of
\* details, delete, balance, check, withdraw, release fails with NotFound,
\* makes no wallet call and leaves the store unchanged.
C8_NotFoundAlways == [][C8_Step(TRUE)]_vars

\* C8 amended: as stated, except that a withdraw whose body fails validation
\* fails with the validation error instead of NotFound.
C8_NotFoundOrInvalid == [][C8_Step(FALSE)]_vars

\* A withdraw with an invalid body on another user's invoice was refused.
C8_Witness ==
    /\ last.op = "withdraw" /\ ~last.valid /\ last.kind = SerializerError
    /\ \E i \in store : i.uuid = last.uuid /\ i.user # last.user

\* C10: a stored invoice keeps the id, owner, amount, address and key it was
\* created with: only create adds an invoice, only delete removes one (the
\* one matching id and owner), and no operation modifies one.
C10_InvoicesImmutable ==
    [][ /\ \A i \in store : \A j \in store' : j.uuid = i.uuid => j = i
        /\ store' # store =>
              \/ /\ last'.op = "create" /\ last'.status = "success"
                 /\ \E n \in store' \ store :
                       /\ store' = store \cup {n}
                       /\ n = last'.inv
                       /\ n.user = last'.user /\ n.amount = last'.amount
                       /\ n.address = address_of(n.key)
                       /\ \A i \in store : i.uuid # n.uuid /\ i.key # n.key
              \/ /\ last'.op = "delete" /\ last'.status = "success"
                 /\ \E i \in store :
                       /\ i.uuid = last'.uuid /\ i.user = last'.user
                       /\ store' = store \ {i} ]_vars

\* A delete succeeded and left another invoice of the same user in the store.
C10_Witness ==
    /\ last.op = "delete" /\ last.status = "success"
    /\ \E i \in store : i.user = last.user

\* The plan of a release body: one output per vendor, in the order of the body.
PlanOf(vendors) ==
    [i \in DOMAIN vendors |->
        [vendor |-> vendors[i].vendor, amount |-> NetOf(vendors[i]), currency |-> "btc"]]

\* C9: the output list release submits to the wallet has exactly one entry
\* per vendor of the body, in the order of the body, each with net amount
\* amount - amount * fee_rate / 100.
C9_PlanSubmitted ==
    /\ (Released(last) /\ last.vendors # <<>>
            /\ \A e \in EntriesOf(last.vendors) : Complete(e) /\ ~BadRate(e)) =>
           /\ last.wallet # "none"
           /\ last.outputs = PlanOf(last.vendors)
    /\ \A s \in Slots : slots[s].op = "release" =>
           slots[s].outputs = PlanOf(slots[s].vendors)

====
